---- MODULE Spec2Model ----
(***************************************************************************)
(* A model of kwaiagents/llms/clients.py: the three message formatter      *)
(* families (make_gpt_messages, make_gemini_messages, the FastChat prompt  *)
(* dialects), the three clients' chat handlers, the history lists they are *)
(* handed and return, and the openai module's global api_type flag.        *)
(*                                                                         *)
(* Python values are tagged records, so that str() and truthiness are      *)
(* modelled by what they do:  a str is [py |-> "str", s |-> <text>], an    *)
(* int [py |-> "int", n |-> <number>], None [py |-> "None"].  Python lists *)
(* are objects on a heap (id -> sequence) because list identity matters:   *)
(* the default argument history=list() is one object per chat function.    *)
(* Model identifiers are sequences of characters, since chat() searches    *)
(* them for substrings.                                                    *)
(***************************************************************************)
EXTENDS Integers, Sequences, FiniteSets, TLC

VARIABLES
    clients,          \* the caller's client variables: slot -> client object or NoClient
    openai_api_type,  \* the module global openai.api_type
    heap,             \* the live Python list objects: id -> sequence of turns
    held,             \* the caller's list variables: the list it handed to its last
                      \* call and the list that call returned
    last,             \* the chat call just made: its inputs, what it did, its result
    chain,            \* the (query, response text) of every call of the threaded conversation
    fin,              \* input of a formatter run (formatter specifications)
    fout              \* output of a formatter run (formatter specifications)

vars == <<clients, openai_api_type, heap, held, last, chain, fin, fout>>

-----------------------------------------------------------------------------
(* Bounds *)

\* longest history a caller hands to chat()
MaxTurns == 1
\* longest history handed to a formatter in the formatter specifications
MaxFmtTurns == 2
\* most pieces a model identifier is put together from
MaxPieces == 2

-----------------------------------------------------------------------------
(* Python values *)

T(s) == [py |-> "str", s |-> s]
PyInt(n) == [py |-> "int", n |-> n]
PyNone == [py |-> "None"]

IsStr(v) == v.py = "str"

\* str(v)
Str(v) ==
    IF v.py = "str" THEN v
    ELSE IF v.py = "int" THEN T(ToString(v.n))
    ELSE T("None")

\* bool(v)
Truthy(v) ==
    IF v.py = "str" THEN v.s # ""
    ELSE IF v.py = "int" THEN v.n # 0
    ELSE FALSE

-----------------------------------------------------------------------------
(* Python lists on the heap *)

\* no list: the result of a call that raised
NoRef == 0 - 1

\* the id a newly created list gets: the smallest one no live list has
FreshId(h) == CHOOSE i \in 0..Cardinality(DOMAIN h) :
                  i \notin DOMAIN h /\ \A j \in 0..(i - 1) : j \in DOMAIN h

\* a new list object holding content
ListNew(h, content) ==
    LET id == FreshId(h) IN [heap |-> h @@ (id :> content), ref |-> id]

\* a plausible slip: `history += items` / history.extend(items), which
\* changes the list it is given and yields that same object
ListAddInPlace(h, a, items) ==
    [heap |-> [h EXCEPT ![a] = @ \o items], ref |-> a]

\* `a + items`: a new list, a's elements then items; a is left alone
ListAdd(h, a, items) == ListNew(h, h[a] \o items)

\* `a[:]`: a new list with a's elements
ListCopy(h, a) == ListNew(h, h[a])

\* the heap once the lists named in dead are no longer referenced
Freed(h, dead) == [o \in (DOMAIN h) \ dead |-> h[o]]

\* the heap a function leaves to its caller, who held the lists of before:
\* the lists the function made for itself die when it returns
Locals(before, h) == [o \in DOMAIN before |-> h[o]]

\* a plausible slip: the new turn put in front of the copied history
HistoryExtendPrepend(h, history, query, response_text) ==
    LET c == ListCopy(h, history)
        n == ListNew(c.heap, <<<<query, response_text>>>> \o c.heap[c.ref])
    IN  [heap |-> Freed(n.heap, {c.ref}), ref |-> n.ref]

\* new_history = history[:] + [[query, response_text]]
HistoryExtend(h, history, query, response_text) ==
    LET c == ListCopy(h, history)
        n == ListAdd(c.heap, c.ref, <<<<query, response_text>>>>)
    IN  [heap |-> Freed(n.heap, {c.ref} \ {n.ref}), ref |-> n.ref]

-----------------------------------------------------------------------------
(* Message formatters *)

RECURSIVE GptTurns(_)
\* the loop of make_gpt_messages: per turn a user entry, then an assistant entry
GptTurns(turns) ==
    IF turns = <<>> THEN <<>>
    ELSE <<[role |-> "user", content |-> Str(turns[1][1])],
           [role |-> "assistant", content |-> Str(turns[1][2])]>>
         \o GptTurns(Tail(turns))

\* a plausible slip: the `if system:` test left out
make_gpt_messages_always_system(query, system, history) ==
    <<[role |-> "system", content |-> system]>>
    \o GptTurns(history)
    \o <<[role |-> "user", content |-> query]>>

make_gpt_messages(query, system, history) ==
    (IF Truthy(system) THEN <<[role |-> "system", content |-> system]>> ELSE <<>>)
    \o GptTurns(history)
    \o <<[role |-> "user", content |-> query]>>

RECURSIVE GeminiTurns(_)
\* the loop of make_gemini_messages: per turn a user entry, then a model entry
GeminiTurns(turns) ==
    IF turns = <<>> THEN <<>>
    ELSE <<[role |-> "user", parts |-> <<Str(turns[1][1])>>],
           [role |-> "model", parts |-> <<Str(turns[1][2])>>]>>
         \o GeminiTurns(Tail(turns))

\* a plausible slip: no assert, the system text is dropped
make_gemini_messages_no_assert(query, system, history) ==
    [raised |-> FALSE, exc |-> "",
     msgs |-> GeminiTurns(history) \o <<[role |-> "user", parts |-> <<query>>]>>]

\* `assert not system` raises AssertionError; otherwise the message list
make_gemini_messages(query, system, history) ==
    IF Truthy(system)
    THEN [raised |-> TRUE, exc |-> "AssertionError", msgs |-> <<>>]
    ELSE [raised |-> FALSE, exc |-> "",
          msgs |-> GeminiTurns(history) \o <<[role |-> "user", parts |-> <<query>>]>>]

\* str + str concatenates; anything else raises TypeError
AllStr(turns) == \A i \in 1..Len(turns) : IsStr(turns[i][1]) /\ IsStr(turns[i][2])

RECURSIVE PromptTurnsA(_)
PromptTurnsA(turns) ==
    IF turns = <<>> THEN ""
    ELSE "User:" \o turns[1][1].s \o "\nAssistant" \o turns[1][2].s \o "\n"
         \o PromptTurnsA(Tail(turns))

\* FastChatClient.make_prompt (dialect A).  An empty history is replaced by a
\* new list; the loop always meets the turn (query, ''), so system is put in
\* front once.  The loop's `query = query + '<reserved_107>'` only rebinds a
\* local that is not read again.
make_prompt(h, query, system, history) ==
    LET h1 == IF h[history] = <<>> THEN ListNew(h, <<>>)
              ELSE [heap |-> h, ref |-> history]
        h2 == ListAdd(h1.heap, h1.ref, <<<<query, T("")>>>>)
        turns == h2.heap[h2.ref]
    IN  IF IsStr(system) /\ IsStr(query) /\ AllStr(turns)
        THEN [heap |-> Locals(h, h2.heap), raised |-> FALSE, exc |-> "",
              prompt |-> T(system.s \o PromptTurnsA(turns))]
        ELSE [heap |-> Locals(h, h2.heap), raised |-> TRUE, exc |-> "TypeError", prompt |-> T("")]

RECURSIVE PromptTurnsB(_)
PromptTurnsB(turns) ==
    IF turns = <<>> THEN ""
    ELSE "<reserved_106>" \o turns[1][1].s \o "<reserved_107>" \o turns[1][2].s
         \o PromptTurnsB(Tail(turns))

\* FastChatClient.make_baichuan_prompt (dialect B)
make_baichuan_prompt(h, query, system, history) ==
    LET h1 == IF h[history] = <<>> THEN ListNew(h, <<>>)
              ELSE [heap |-> h, ref |-> history]
        h2 == ListAdd(h1.heap, h1.ref, <<<<query, T("")>>>>)
        turns == h2.heap[h2.ref]
    IN  IF IsStr(system) /\ IsStr(query) /\ AllStr(turns)
        THEN [heap |-> Locals(h, h2.heap), raised |-> FALSE, exc |-> "",
              prompt |-> T(system.s \o PromptTurnsB(turns))]
        ELSE [heap |-> Locals(h, h2.heap), raised |-> TRUE, exc |-> "TypeError", prompt |-> T("")]

\* `response = r if r else ''`: a falsy r of any type becomes ''
QwenStr(turns) ==
    \A i \in 1..Len(turns) :
        IsStr(turns[i][1]) /\ (Truthy(turns[i][2]) => IsStr(turns[i][2]))

RECURSIVE PromptTurnsC(_)
PromptTurnsC(turns) ==
    IF turns = <<>> THEN ""
    ELSE "<|im_start|>user\n" \o turns[1][1].s
         \o "<|im_end|>\n<|im_start|>assistant\n"
         \o (IF Truthy(turns[1][2]) THEN turns[1][2].s ELSE "")
         \o "<|im_end|>\n"
         \o PromptTurnsC(Tail(turns))

\* FastChatClient.make_qwen_prompt (dialect C)
make_qwen_prompt(h, query, system, history) ==
    LET h2 == ListAdd(h, history, <<<<query, T("")>>>>)
        turns == h2.heap[h2.ref]
    IN  IF IsStr(system) /\ QwenStr(turns)
        THEN [heap |-> Locals(h, h2.heap), raised |-> FALSE, exc |-> "",
              prompt |-> T("<|im_start|>" \o system.s \o "<|im_end|>\n"
                           \o PromptTurnsC(turns))]
        ELSE [heap |-> Locals(h, h2.heap), raised |-> TRUE, exc |-> "TypeError", prompt |-> T("")]

-----------------------------------------------------------------------------
(* Model identifiers: sequences of characters *)

\* "gpt-3.5-turbo-1106", the default of OpenAIClient.__init__
GPT_DEFAULT_MODEL ==
    <<"g","p","t","-","3",".","5","-","t","u","r","b","o","-","1","1","0","6">>

\* "gemini-pro", the default of GeminiClient.__init__
GEMINI_DEFAULT_MODEL == <<"g","e","m","i","n","i","-","p","r","o">>

\* "kagentlms_baichuan2_13b_mat", the default of FastChatClient.__init__
FASTCHAT_DEFAULT_MODEL ==
    <<"k","a","g","e","n","t","l","m","s","_","b","a","i","c","h","u","a","n","2",
      "_","1","3","b","_","m","a","t">>

\* "kagentlms_qwen_7b_mat"
KAGENT_QWEN_MODEL ==
    <<"k","a","g","e","n","t","l","m","s","_","q","w","e","n","_","7","b","_",
      "m","a","t">>

BAICHUAN == <<"b","a","i","c","h","u","a","n">>
QWEN == <<"q","w","e","n">>

RECURSIVE StartsAt(_, _, _)
\* does needle match hay at position i (1-based), compared character by character
StartsAt(needle, hay, i) ==
    IF needle = <<>> THEN TRUE
    ELSE /\ i <= Len(hay)
         /\ hay[i] = Head(needle)
         /\ StartsAt(Tail(needle), hay, i + 1)

RECURSIVE FindFrom(_, _, _)
\* scan hay left to right from position i for needle
FindFrom(needle, hay, i) ==
    IF i + Len(needle) - 1 > Len(hay) THEN FALSE
    ELSE IF StartsAt(needle, hay, i) THEN TRUE
    ELSE FindFrom(needle, hay, i + 1)

\* Python's `needle in hay` on two str
StrIn(needle, hay) == FindFrom(needle, hay, 1)

\* a plausible slip: the qwen test placed before the baichuan test
DialectQwenFirst(model) ==
    IF StrIn(QWEN, model) THEN "make_qwen_prompt"
    ELSE IF StrIn(BAICHUAN, model) THEN "make_baichuan_prompt"
    ELSE "make_prompt"

\* the if/elif/else of FastChatClient.chat: which prompt formatter it calls
Dialect(model) ==
    IF StrIn(BAICHUAN, model) THEN "make_baichuan_prompt"
    ELSE IF StrIn(QWEN, model) THEN "make_qwen_prompt"
    ELSE "make_prompt"

-----------------------------------------------------------------------------
(* What a backend can answer *)

\* a chat-completion envelope: choices[0].message.content
ChatEnvelope(text) == [choices |-> <<[message |-> [content |-> text]]>>]
\* a text-completion envelope: choices[0].text
CompletionEnvelope(text) == [choices |-> <<[text |-> text]>>]
\* an envelope with no candidate
EmptyChoices == [choices |-> <<>>]
\* an envelope with no choices field
ErrorBody == [error |-> "invalid request"]

Envelopes ==
    {ChatEnvelope(T("ok")), CompletionEnvelope(T("ok")), EmptyChoices, ErrorBody}

\* the call raised (connection refused, timeout, API error)
TransportError == [kind |-> "raise"]

\* openai.ChatCompletion.create: raises, or returns an envelope
OpenAIReplies == {TransportError} \cup {[kind |-> "return", body |-> b] : b \in Envelopes}

\* generate_content: raises, or returns a response object whose .text is
\* readable only when there is a candidate
GeminiAnswer == [candidates |-> <<[text |-> T("ok")]>>, prompt_feedback |-> ""]
GeminiBlocked == [candidates |-> <<>>, prompt_feedback |-> "block_reason: SAFETY"]
GeminiReplies ==
    {TransportError} \cup {[kind |-> "return", body |-> b] : b \in {GeminiAnswer, GeminiBlocked}}

\* requests.post: raises, or returns a response whose body is JSON or not
NotJson == [kind |-> "return", json |-> FALSE, body |-> ErrorBody]
FastChatReplies ==
    {TransportError, NotJson}
    \cup {[kind |-> "return", json |-> TRUE, body |-> b] : b \in Envelopes}

\* response['choices'][0]['message']['content']
ChatContent(body) ==
    IF /\ "choices" \in DOMAIN body
       /\ Len(body.choices) > 0
       /\ "message" \in DOMAIN body.choices[1]
       /\ "content" \in DOMAIN body.choices[1].message
    THEN [raised |-> FALSE, value |-> body.choices[1].message.content]
    ELSE [raised |-> TRUE, value |-> T("")]

\* response['choices'][0]['text']
CompletionText(body) ==
    IF /\ "choices" \in DOMAIN body
       /\ Len(body.choices) > 0
       /\ "text" \in DOMAIN body.choices[1]
    THEN [raised |-> FALSE, value |-> body.choices[1].text]
    ELSE [raised |-> TRUE, value |-> T("")]

\* response.text of the generative backend: raises without a candidate
GeminiText(response) ==
    IF Len(response.candidates) > 0
    THEN [raised |-> FALSE, value |-> response.candidates[1].text]
    ELSE [raised |-> TRUE, value |-> T("")]

-----------------------------------------------------------------------------
(* The chat handlers.  Each yields the heap it leaves, whether it returned *)
(* or raised, the response text, the list it returned and the outbound     *)
(* requests it issued, in order.                                           *)

\* the list objects that `history=list()` creates once, when each chat
\* function is defined
OPENAI_DEFAULT_HISTORY == 0
GEMINI_DEFAULT_HISTORY == 1
FASTCHAT_DEFAULT_HISTORY == 2

DefaultHistories ==
    {OPENAI_DEFAULT_HISTORY, GEMINI_DEFAULT_HISTORY, FASTCHAT_DEFAULT_HISTORY}

Raised(h, exc, requests) ==
    [heap |-> h, outcome |-> "raised", exc |-> exc, text |-> T(""),
     ret |-> NoRef, requests |-> requests]

Returned(ext, response_text, requests) ==
    [heap |-> ext.heap, outcome |-> "returned", exc |-> "", text |-> response_text,
     ret |-> ext.ref, requests |-> requests]

\* OpenAIClient.chat; api_type is the module global openai.api_type as the
\* call finds it
OpenAIClient_chat(h, api_type, self, query, history, system, temperature, stop, reply) ==
    LET msgs == make_gpt_messages(query, system, h[history])
        requests ==
            IF api_type = "open_ai"
            THEN <<[api |-> "openai.ChatCompletion.create", model |-> self.model,
                    messages |-> msgs, temperature |-> temperature, stop |-> stop]>>
            ELSE IF api_type = "azure"
            THEN <<[api |-> "openai.ChatCompletion.create", engine |-> self.model,
                    messages |-> msgs, temperature |-> temperature, stop |-> stop]>>
            ELSE <<>>
        \* inside the try: with neither branch taken `response` is unbound,
        \* and reading it raises like any other failure there
        content ==
            IF requests = <<>> \/ reply.kind = "raise"
            THEN [raised |-> TRUE, value |-> T("")]
            ELSE ChatContent(reply.body)
        response_text == IF content.raised THEN T("") ELSE content.value
    IN  Returned(HistoryExtend(h, history, query, response_text), response_text, requests)

\* GeminiClient.chat
GeminiClient_chat(h, self, query, history, system, temperature, stop, reply) ==
    LET f == make_gemini_messages(query, system, h[history])
        stop_sequences == IF Truthy(stop) THEN <<stop>> ELSE <<>>
        request ==
            [api |-> "GenerativeModel.generate_content", model |-> self.model,
             contents |-> f.msgs,
             generation_config |-> [candidate_count |-> 1,
                                    stop_sequences |-> stop_sequences,
                                    temperature |-> temperature],
             safety_settings |-> <<[category |-> "HARM_CATEGORY_HARASSMENT",
                                    threshold |-> "BLOCK_ONLY_HIGH"]>>]
        readable == GeminiText(reply.body)
        response_text == IF readable.raised THEN T("") ELSE readable.value
    IN  IF f.raised THEN Raised(h, f.exc, <<>>)
        \* the handler of the first try prints response.prompt_feedback, but
        \* `response` was never bound: the handler itself raises
        ELSE IF reply.kind = "raise" THEN Raised(h, "UnboundLocalError", <<request>>)
        ELSE Returned(HistoryExtend(h, history, query, response_text),
                      response_text, <<request>>)

\* FastChatClient.chat; the caller's temperature and stop are not used
FastChatClient_chat(h, self, query, history, system, temperature, stop, reply) ==
    LET url == "http://" \o self.host \o ":" \o ToString(self.port) \o "/v1/completions/"
        dialect == Dialect(self.model)
        p == IF dialect = "make_baichuan_prompt"
             THEN make_baichuan_prompt(h, query, system, history)
             ELSE IF dialect = "make_qwen_prompt"
             THEN make_qwen_prompt(h, query, system, history)
             ELSE make_prompt(h, query, system, history)
        request ==
            [api |-> "requests.post", url |-> url,
             headers |-> ("Content-Type" :> "application/json"),
             json |-> [model |-> self.model, prompt |-> p.prompt,
                       temperature |-> "0.1", top_p |-> "0.75",
                       top_k |-> 40, max_tokens |-> 512]]
        text == CompletionText(reply.body)
    IN  IF p.raised THEN Raised(p.heap, p.exc, <<>>)
        ELSE IF reply.kind = "raise" THEN Raised(p.heap, "ConnectionError", <<request>>)
        ELSE IF ~reply.json THEN Raised(p.heap, "JSONDecodeError", <<request>>)
        ELSE IF text.raised THEN Raised(p.heap, "KeyError", <<request>>)
        ELSE Returned(HistoryExtend(p.heap, history, query, text.value),
                      text.value, <<request>>)

-----------------------------------------------------------------------------
(* The program: a caller that constructs clients and converses with them *)

\* the caller's client variable
Slots == {"a"}
\* a client some other part of the process constructs and keeps to itself
Elsewhere == "elsewhere"
NoClient == [cls |-> "none"]

\* what OPENAI_API_TYPE can hold in the process environment
EnvApiTypes == {"unset", "open_ai", "azure", "azure_ad"}

Queries == {T("hi"), T("yo")}
Systems == {T(""), T("SYS")}
Stops == {T("")}
Temperatures == {"0.0"}
FastChatModels == {FASTCHAT_DEFAULT_MODEL, KAGENT_QWEN_MODEL}

\* how the caller picks the history argument: leaves it out, passes a new
\* empty list, passes the list the last call returned, or, after a call that
\* raised, passes again the list it passed to that call
Modes == {"omit", "fresh", "thread", "retry"}

NoCall == [called |-> FALSE]
NoInput == [none |-> TRUE]

Init ==
    /\ clients = [s \in Slots |-> NoClient]
    /\ openai_api_type = "open_ai"
    /\ heap = [d \in DefaultHistories |-> <<>>]
    /\ held = [history |-> NoRef, ret |-> NoRef]
    /\ last = NoCall
    /\ chain = <<>>
    /\ fin = NoInput
    /\ fout = NoInput

\* the caller binds a newly constructed client to its variable, unless the
\* client is constructed elsewhere
Bind(slot, client) ==
    IF slot \in Slots THEN [clients EXCEPT ![slot] = client] ELSE clients

\* OpenAIClient.__init__; env is the OPENAI_API_TYPE it finds.  The other
\* settings it reads (the API key, for azure the version and the base) are
\* taken to be present
OpenAIClient_init(slot, model, env) ==
    LET api_type == IF env = "unset" THEN "open_ai" ELSE env
    IN  /\ openai_api_type' = api_type
        /\ clients' = Bind(slot, [cls |-> "OpenAIClient", model |-> model,
                                  flag |-> api_type])
        /\ last' = NoCall
        /\ UNCHANGED <<heap, held, chain, fin, fout>>

\* GeminiClient.__init__
GeminiClient_init(slot, model) ==
    /\ clients' = Bind(slot, [cls |-> "GeminiClient", model |-> model])
    /\ last' = NoCall
    /\ UNCHANGED <<openai_api_type, heap, held, chain, fin, fout>>

\* FastChatClient.__init__
FastChatClient_init(slot, model, host, port) ==
    /\ clients' = Bind(slot, [cls |-> "FastChatClient", model |-> model,
                              host |-> host, port |-> port])
    /\ last' = NoCall
    /\ UNCHANGED <<openai_api_type, heap, held, chain, fin, fout>>

\* can the caller pick the history argument this way now
ModeOk(mode) ==
    CASE mode = "thread" -> held.ret # NoRef /\ Len(heap[held.ret]) <= MaxTurns
      [] mode = "retry"  -> /\ held.ret = NoRef
                            /\ held.history # NoRef
                            /\ held.history \notin DefaultHistories
      [] OTHER           -> TRUE

\* the lists still referenced: the defaults, and those the caller keeps
Live(h, keep) == [o \in (DOMAIN h) \cap (DefaultHistories \cup keep) |-> h[o]]

\* the heap and the list handed to chat(): the default object of the
\* function when the argument is left out.  The caller lets go of the lists
\* of the last call that it does not pass on
Argument(mode, default) ==
    CASE mode = "omit"   -> [heap |-> Live(heap, {}), ref |-> default]
      [] mode = "fresh"  -> ListNew(Live(heap, {}), <<>>)
      [] mode = "thread" -> [heap |-> Live(heap, {held.ret}), ref |-> held.ret]
      [] mode = "retry"  -> [heap |-> Live(heap, {held.history}), ref |-> held.history]

\* the turns of the conversation behind the list handed in
ArgumentChain(mode) ==
    CASE mode = "thread" -> chain
      [] mode = "retry"  -> chain
      [] OTHER           -> <<>>

\* the state a finished call leaves
Finish(slot, query, system, mode, arg, reply, r) ==
    /\ heap' = r.heap
    /\ held' = [history |-> arg.ref, ret |-> r.ret]
    /\ last' = [called |-> TRUE, client |-> clients[slot],
                query |-> query, system |-> system,
                history |-> arg.ref, before |-> arg.heap[arg.ref],
                reply |-> reply, outcome |-> r.outcome, exc |-> r.exc,
                text |-> r.text, ret |-> r.ret, requests |-> r.requests]
    /\ chain' = IF r.outcome = "returned"
                THEN Append(ArgumentChain(mode), <<query, r.text>>)
                ELSE ArgumentChain(mode)
    /\ UNCHANGED <<clients, openai_api_type, fin, fout>>

OpenAIChat(slot, query, system, temperature, stop, mode, reply) ==
    /\ clients[slot].cls = "OpenAIClient"
    /\ ModeOk(mode)
    /\ LET arg == Argument(mode, OPENAI_DEFAULT_HISTORY)
       IN  Finish(slot, query, system, mode, arg, reply,
                  OpenAIClient_chat(arg.heap, openai_api_type, clients[slot], query,
                                    arg.ref, system, temperature, stop, reply))

GeminiChat(slot, query, system, temperature, stop, mode, reply) ==
    /\ clients[slot].cls = "GeminiClient"
    /\ ModeOk(mode)
    /\ LET arg == Argument(mode, GEMINI_DEFAULT_HISTORY)
       IN  Finish(slot, query, system, mode, arg, reply,
                  GeminiClient_chat(arg.heap, clients[slot], query,
                                    arg.ref, system, temperature, stop, reply))

FastChatChat(slot, query, system, temperature, stop, mode, reply) ==
    /\ clients[slot].cls = "FastChatClient"
    /\ ModeOk(mode)
    /\ LET arg == Argument(mode, FASTCHAT_DEFAULT_HISTORY)
       IN  Finish(slot, query, system, mode, arg, reply,
                  FastChatClient_chat(arg.heap, clients[slot], query,
                                      arg.ref, system, temperature, stop, reply))

Next ==
    \/ \E slot \in Slots \cup {Elsewhere}, env \in EnvApiTypes :
           OpenAIClient_init(slot, GPT_DEFAULT_MODEL, env)
    \/ \E slot \in Slots : GeminiClient_init(slot, GEMINI_DEFAULT_MODEL)
    \/ \E slot \in Slots, model \in FastChatModels :
           FastChatClient_init(slot, model, "localhost", 8888)
    \/ \E slot \in Slots, query \in Queries, system \in Systems,
          temperature \in Temperatures, stop \in Stops, mode \in Modes,
          reply \in OpenAIReplies :
           OpenAIChat(slot, query, system, temperature, stop, mode, reply)
    \/ \E slot \in Slots, query \in Queries, system \in Systems,
          temperature \in Temperatures, stop \in Stops, mode \in Modes,
          reply \in GeminiReplies :
           GeminiChat(slot, query, system, temperature, stop, mode, reply)
    \/ \E slot \in Slots, query \in Queries, system \in Systems,
          temperature \in Temperatures, stop \in Stops, mode \in Modes,
          reply \in FastChatReplies :
           FastChatChat(slot, query, system, temperature, stop, mode, reply)

Spec == Init /\ [][Next]_vars

-----------------------------------------------------------------------------
(* The formatters on their own: make_gpt_messages and make_gemini_messages *)
(* applied to histories that also hold values that are not text            *)

FmtQueries == {T("q3")}
FmtTurns == {<<q, r>> : q \in {T("q1"), PyInt(7)}, r \in {T("r1"), T(""), PyNone}}

RECURSIVE SeqsUpTo(_, _)
\* the sequences over S of length at most n
SeqsUpTo(S, n) ==
    IF n = 0 THEN {<<>>}
    ELSE LET shorter == SeqsUpTo(S, n - 1)
         IN  shorter \cup {Append(q, x) : q \in {t \in shorter : Len(t) = n - 1}, x \in S}

InitFmt ==
    /\ clients = [s \in Slots |-> NoClient]
    /\ openai_api_type = "open_ai"
    /\ heap = [d \in DefaultHistories |-> <<>>]
    /\ held = [history |-> NoRef, ret |-> NoRef]
    /\ last = NoCall
    /\ chain = <<>>
    /\ fin \in [query : FmtQueries, system : Systems,
                history : SeqsUpTo(FmtTurns, MaxFmtTurns)]
    /\ fout = NoInput

FormatGpt ==
    /\ fout = NoInput
    /\ fout' = [fn |-> "make_gpt_messages",
                msgs |-> make_gpt_messages(fin.query, fin.system, fin.history)]
    /\ UNCHANGED <<clients, openai_api_type, heap, held, last, chain, fin>>

FormatGemini ==
    /\ fout = NoInput
    /\ fout' = [fn |-> "make_gemini_messages",
                result |-> make_gemini_messages(fin.query, fin.system, fin.history)]
    /\ UNCHANGED <<clients, openai_api_type, heap, held, last, chain, fin>>

NextFmt == FormatGpt \/ FormatGemini

SpecFmt == InitFmt /\ [][NextFmt]_vars

-----------------------------------------------------------------------------
(* The dialect selection on its own: FastChatClient.chat on clients of     *)
(* many model identifiers                                                  *)

\* what the identifiers are put together from
Pieces ==
    {BAICHUAN, QWEN,
     <<"Q","w","e","n">>, <<"B","A","I","C","H","U","A","N">>,
     <<"q","w","e">>, <<"n">>, <<"b","a","i","c","h","u","a">>, <<"-","7","b">>}

RECURSIVE Joined(_)
\* the identifiers made of at most n pieces
Joined(n) ==
    IF n = 0 THEN {<<>>}
    ELSE Joined(n - 1) \cup {m \o piece : m \in Joined(n - 1), piece \in Pieces}

SelectHistories == {<<>>, <<<<T("yo"), T("ok")>>>>}

\* the caller's own list in the dialect runs
SelectHistory == FreshId([d \in DefaultHistories |-> <<>>])

InitSelect ==
    /\ clients = [s \in Slots |-> NoClient]
    /\ openai_api_type = "open_ai"
    /\ heap = [d \in DefaultHistories |-> <<>>]
    /\ held = [history |-> NoRef, ret |-> NoRef]
    /\ last = NoCall
    /\ chain = <<>>
    /\ fin \in [model : Joined(MaxPieces), query : {T("hi")}, system : Systems,
                history : SelectHistories]
    /\ fout = NoInput

\* a FastChatClient of the model identifier is constructed and asked once;
\* the backend answers
SelectChat ==
    /\ fout = NoInput
    /\ LET self == [cls |-> "FastChatClient", model |-> fin.model,
                    host |-> "localhost", port |-> 8888]
           h == ListNew(heap, fin.history)
           r == FastChatClient_chat(h.heap, self, fin.query, h.ref, fin.system,
                                    "0.0", T(""),
                                    [kind |-> "return", json |-> TRUE,
                                     body |-> CompletionEnvelope(T("ok"))])
       IN  fout' = [fn |-> "FastChatClient.chat", outcome |-> r.outcome,
                    requests |-> r.requests]
    /\ UNCHANGED <<clients, openai_api_type, heap, held, last, chain, fin>>

NextSelect == SelectChat

SpecSelect == InitSelect /\ [][NextSelect]_vars

-----------------------------------------------------------------------------
(* The claims *)

IsPrefix(a, b) == Len(a) <= Len(b) /\ SubSeq(b, 1, Len(a)) = a

\* the backend of the call did not answer: the outbound call raised, or the
\* reply is not readable where the client looks for the text
BackendFailed(call) ==
    \/ call.reply.kind = "raise"
    \/ /\ call.client.cls = "OpenAIClient"
       /\ ChatContent(call.reply.body).raised
    \/ /\ call.client.cls = "GeminiClient"
       /\ GeminiText(call.reply.body).raised
    \/ /\ call.client.cls = "FastChatClient"
       /\ (~call.reply.json \/ CompletionText(call.reply.body).raised)

\* the call broke the precondition of the structured-parts formatter
SystemToGemini(call) ==
    call.client.cls = "GeminiClient" /\ Truthy(call.system)

\* the call returned ("", history + [(query, "")])
Degraded(call) ==
    /\ call.outcome = "returned"
    /\ call.text = T("")
    /\ heap[call.ret] = call.before \o <<<<call.query, T("")>>>>

\* C1: whenever the backend of a chat call failed (the outbound call raised,
\* the reply is malformed or lacks the expected field), on any of the three
\* clients, the call did not raise and returned ("", history + [(query, "")]).
C1_DegradesOnFailure ==
    (last.called /\ BackendFailed(last) /\ ~SystemToGemini(last)) => Degraded(last)

\* C2: a GeminiClient.chat call with an empty system prompt whose
\* generate_content raised, or whose result has no readable text, did not
\* raise and returned ("", history + [(query, "")]).
C2_GeminiContainsFailure ==
    (/\ last.called
     /\ last.client.cls = "GeminiClient"
     /\ ~Truthy(last.system)
     /\ BackendFailed(last)) => Degraded(last)

\* C3: every chat call, whether its backend answered or failed, returns a
\* history one turn longer than the one handed in, whose first entries are
\* the input's in order and whose last entry is (query, returned text).
C3_ReturnedHistoryShape ==
    (last.called /\ ~SystemToGemini(last)) =>
        /\ last.outcome = "returned"
        /\ Len(heap[last.ret]) = Len(last.before) + 1
        /\ SubSeq(heap[last.ret], 1, Len(last.before)) = last.before
        /\ heap[last.ret][Len(last.before) + 1] = <<last.query, last.text>>

\* what a call that leaves the history out sends when the default is empty
PayloadOnEmpty(call) ==
    LET empty == [d \in DefaultHistories |-> <<>>]
        name == Dialect(call.client.model)
        p == IF name = "make_baichuan_prompt"
             THEN make_baichuan_prompt(empty, call.query, call.system,
                                       FASTCHAT_DEFAULT_HISTORY)
             ELSE IF name = "make_qwen_prompt"
             THEN make_qwen_prompt(empty, call.query, call.system,
                                   FASTCHAT_DEFAULT_HISTORY)
             ELSE make_prompt(empty, call.query, call.system, FASTCHAT_DEFAULT_HISTORY)
    IN  \A i \in 1..Len(call.requests) :
            CASE call.client.cls = "OpenAIClient" ->
                     call.requests[i].messages
                         = make_gpt_messages(call.query, call.system, <<>>)
              [] call.client.cls = "GeminiClient" ->
                     call.requests[i].contents
                         = make_gemini_messages(call.query, call.system, <<>>).msgs
              [] OTHER -> call.requests[i].json.prompt = p.prompt

\* C4: no chat call and no formatter changes the list it is handed: the
\* shared default lists are empty in every state, after a call the list
\* handed in holds the turns it held before, and a call that leaves the
\* history out is formatted against an empty history and returns one turn.
C4_InputHistoryUnchanged ==
    /\ \A d \in DefaultHistories : heap[d] = <<>>
    /\ last.called =>
           /\ heap[last.history] = last.before
           /\ last.history \in DefaultHistories =>
                  /\ PayloadOnEmpty(last)
                  /\ last.outcome = "returned" => Len(heap[last.ret]) = 1

\* a FastChat call handed a history that already holds a turn has returned:
\* the prompt formatter and the history extension both ran on that list
C4_Witness ==
    /\ last.called
    /\ last.client.cls = "FastChatClient"
    /\ Len(last.before) >= 1
    /\ last.outcome = "returned"

\* C5: in a conversation threaded from an empty history, the list the n-th
\* returning call returns holds exactly the n turns (query of call i, text
\* returned by call i) in call order, and the list handed to a call is a
\* prefix of the list it returns.
C5_ThreadedHistoryGrows ==
    held.ret # NoRef =>
        /\ Len(heap[held.ret]) = Len(chain)
        /\ \A i \in 1..Len(chain) : heap[held.ret][i] = chain[i]
        /\ IsPrefix(heap[held.history], heap[held.ret])
        /\ Len(heap[held.ret]) = Len(heap[held.history]) + 1

\* a second threaded call has returned, and its two turns differ
C5_Witness ==
    /\ held.ret # NoRef
    /\ Len(heap[held.ret]) = 2
    /\ Len(heap[held.history]) = 1
    /\ heap[held.ret][1][1] # heap[held.ret][2][1]
    /\ heap[held.ret][1][2] # heap[held.ret][2][2]

\* C6: every chat call that returns has issued exactly one outbound request.
C6_ExactlyOneRequest ==
    (last.called /\ last.outcome = "returned") => Len(last.requests) = 1

\* C7: a GeminiClient.chat call with a non-empty system prompt raises the
\* formatter's AssertionError to the caller, has issued no outbound request,
\* returns nothing (no empty response, no extended history) and leaves no
\* new list behind.
C7_GeminiSystemFailsLoudly ==
    (last.called /\ SystemToGemini(last)) =>
        /\ last.outcome = "raised"
        /\ last.exc = "AssertionError"
        /\ last.requests = <<>>
        /\ last.ret = NoRef
        /\ held.ret = NoRef

\* a GeminiClient.chat call with system "SYS" is over
C7_Witness ==
    /\ last.called
    /\ last.client.cls = "GeminiClient"
    /\ last.system = T("SYS")

\* C8: make_gpt_messages on a history of n turns yields, with a non-empty
\* system, 2n+2 entries: system(system), then per turn user(q_i) and
\* assistant(r_i) in history order, then user(query); with an empty system
\* the same without the system entry (2n+1 entries, none of role system).
\* An entry of a turn holds str() of the turn's value: the value itself
\* when it is text.
C8_GptMessagesLayout ==
    (fout # NoInput /\ fout.fn = "make_gpt_messages") =>
        LET msgs == fout.msgs
            n == Len(fin.history)
            off == IF fin.system.s # "" THEN 1 ELSE 0
        IN  /\ Len(msgs) = 2 * n + 1 + off
            /\ off = 1 => msgs[1] = [role |-> "system", content |-> fin.system]
            /\ off = 0 => \A k \in 1..Len(msgs) : msgs[k].role # "system"
            /\ \A i \in 1..n :
                   LET q == fin.history[i][1]
                       r == fin.history[i][2]
                       u == msgs[off + 2 * i - 1]
                       a == msgs[off + 2 * i]
                   IN  /\ u.role = "user"
                       /\ a.role = "assistant"
                       /\ u.content.py = "str"
                       /\ a.content.py = "str"
                       /\ q.py = "str" => u.content = q
                       /\ r.py = "str" => a.content = r
                       /\ q.py = "int" => u.content = T(ToString(q.n))
                       /\ r.py = "None" => a.content = T("None")
            /\ msgs[Len(msgs)] = [role |-> "user", content |-> fin.query]

\* make_gpt_messages has run on system "SYS" and a history of two text turns
C8_Witness ==
    /\ fout # NoInput
    /\ fout.fn = "make_gpt_messages"
    /\ fin.system = T("SYS")
    /\ Len(fin.history) = 2
    /\ \A i \in 1..2 : fin.history[i][1].py = "str" /\ fin.history[i][2].py = "str"

\* does the identifier hold the word at some position
Occurs(word, id) ==
    \E i \in 1..Len(id) :
        /\ i + Len(word) - 1 <= Len(id)
        /\ SubSeq(id, i, i + Len(word) - 1) = word

\* the prompts of the three dialects for the input of the dialect run
PromptOf(formatter) ==
    LET h == ListNew([d \in DefaultHistories |-> <<>>], fin.history)
    IN  CASE formatter = "B" ->
                 make_baichuan_prompt(h.heap, fin.query, fin.system, h.ref).prompt
          [] formatter = "C" ->
                 make_qwen_prompt(h.heap, fin.query, fin.system, h.ref).prompt
          [] OTHER ->
                 make_prompt(h.heap, fin.query, fin.system, h.ref).prompt

\* C9: FastChatClient.chat sends the prompt of exactly one dialect, chosen
\* by case-sensitive substring match on the model identifier: dialect B when
\* it holds "baichuan" (also when it holds "qwen" too), else dialect C when
\* it holds "qwen", else dialect A.
C9_DialectSelection ==
    (fout # NoInput /\ fout.fn = "FastChatClient.chat") =>
        LET expected == IF Occurs(BAICHUAN, fin.model) THEN "B"
                        ELSE IF Occurs(QWEN, fin.model) THEN "C"
                        ELSE "A"
        IN  /\ Len(fout.requests) = 1
            /\ fout.requests[1].json.prompt = PromptOf(expected)
            /\ \A other \in {"A", "B", "C"} \ {expected} :
                   fout.requests[1].json.prompt # PromptOf(other)

\* a client whose identifier holds both "qwen" and "baichuan", qwen first,
\* has been asked
C9_Witness ==
    /\ fout # NoInput
    /\ fout.fn = "FastChatClient.chat"
    /\ fin.model = QWEN \o BAICHUAN

\* C10: an OpenAIClient.chat call sends its model identifier in the field
\* that the API type read at that client's construction selects: `model`
\* for "open_ai", `engine` for "azure".
C10_ShapeFixedAtConstruction ==
    (last.called /\ last.client.cls = "OpenAIClient") =>
        /\ last.client.flag = "open_ai" =>
               (Len(last.requests) = 1 /\ "model" \in DOMAIN last.requests[1])
        /\ last.client.flag = "azure" =>
               (Len(last.requests) = 1 /\ "engine" \in DOMAIN last.requests[1])

====
